---------------------------- MODULE Spec2Model ----------------------------
(***************************************************************************)
(* Job tracker: the page scraper, the role filter, the careers-page       *)
(* finder, the snapshot diff of check_for_new_jobs and the two email      *)
(* parsers (job_tracker.py, streamlit_app.py), and the dashboard's add    *)
(* and remove handlers beside a run of the tracker on the two files.      *)
(*                                                                         *)
(* Text (titles, names, URLs, lines) is a sequence of one-character        *)
(* strings, so that lower(), replace(), startswith(), "in" and the regular *)
(* expressions are computed character by character.  Python's None is the *)
(* empty set and a present value v is {v}.  A dict whose insertion order   *)
(* is observable (the company registry, a parser's result) is a sequence   *)
(* of records with distinct names.                                         *)
(***************************************************************************)
EXTENDS Integers, Sequences, FiniteSets, TLC

VARIABLES
    companies_file,   \* companies.json: sequence of company records
    jobs_file,        \* previous_jobs.json: company key -> posting list
    companies,        \* JobTracker.companies (in memory)
    previous_jobs,    \* JobTracker.previous_jobs (in memory)
    pc,               \* position of the running process
    idx,              \* position of the loop of check_for_new_jobs
    new_jobs,         \* new_jobs of check_for_new_jobs
    web,              \* the remote pages: URL -> response
    now,              \* the clock read by datetime.now()
    remote_changed,   \* a remote page changed since the last finished cycle
    st_cache,         \* the dashboard's st.cache_data: the cached loads
    st_runs,          \* the runs of the dashboard's script so far
    input,            \* argument of the function under study
    output            \* its result (or the state of its loop)

vars == <<companies_file, jobs_file, companies, previous_jobs, pc, idx,
          new_jobs, web, st_cache, st_runs, now, remote_changed, input, output>>

----------------------------------------------------------------------------
(* Bounds of the model *)

MaxElems == 3

MaxBig == 25

MaxCompanies == 2

MaxCycles == 3

MaxLines == 3

MaxRuns == 3

\* the sequences of at most n elements of S
RECURSIVE SeqsUpTo(_, _)
SeqsUpTo(S, n) ==
    IF n = 0 THEN {<< >>}
    ELSE LET shorter == SeqsUpTo(S, n - 1)
         IN  shorter \cup {Append(q, e) : q \in {r \in shorter : Len(r) = n - 1}, e \in S}

----------------------------------------------------------------------------
(* str methods *)

LowerChar(c) ==
    CASE c = "A" -> "a" [] c = "B" -> "b" [] c = "C" -> "c" [] c = "D" -> "d"
      [] c = "E" -> "e" [] c = "F" -> "f" [] c = "G" -> "g" [] c = "H" -> "h"
      [] c = "I" -> "i" [] c = "J" -> "j" [] c = "K" -> "k" [] c = "L" -> "l"
      [] c = "M" -> "m" [] c = "N" -> "n" [] c = "O" -> "o" [] c = "P" -> "p"
      [] c = "Q" -> "q" [] c = "R" -> "r" [] c = "S" -> "s" [] c = "T" -> "t"
      [] c = "U" -> "u" [] c = "V" -> "v" [] c = "W" -> "w" [] c = "X" -> "x"
      [] c = "Y" -> "y" [] c = "Z" -> "z" [] OTHER -> c

lower(s) == [i \in 1..Len(s) |-> LowerChar(s[i])]

replace(s, old, new) == [i \in 1..Len(s) |-> IF s[i] = old THEN new ELSE s[i]]

\* p occurs in s at position i
occurs_at(s, p, i) ==
    i + Len(p) - 1 <= Len(s) /\ \A k \in 1..Len(p) : s[i + k - 1] = p[k]

\* sub in s
contains(s, sub) == \E i \in 1..(Len(s) - Len(sub) + 1) : occurs_at(s, sub, i)

startswith(s, p) == occurs_at(s, p, 1)

\* \s of the regular expressions, and the characters str.strip() removes
Whitespace == {" ", "\t", "\r", "\n"}

RECURSIVE lstrip(_, _)
lstrip(s, chars) ==
    IF s # << >> /\ Head(s) \in chars THEN lstrip(Tail(s), chars) ELSE s

RECURSIVE rstrip(_, _)
rstrip(s, chars) ==
    IF s # << >> /\ s[Len(s)] \in chars THEN rstrip(SubSeq(s, 1, Len(s) - 1), chars) ELSE s

strip(s) == rstrip(lstrip(s, Whitespace), Whitespace)

\* index of the first occurrence of sub in s at or after position from, 0 if none
RECURSIVE find(_, _, _)
find(s, sub, from) ==
    IF from + Len(sub) - 1 > Len(s) THEN 0
    ELSE IF occurs_at(s, sub, from) THEN from
    ELSE find(s, sub, from + 1)

\* urllib.parse.urljoin(base, ref) for a ref that starts with "/": a
\* network-path reference ("//host/p") keeps the scheme of base only, an
\* absolute-path reference replaces the path of base
urljoin(base, ref) ==
    LET sep    == find(base, <<":","/","/">>, 1)
        slash  == find(base, <<"/">>, sep + 3)
        origin == IF slash = 0 THEN base ELSE SubSeq(base, 1, slash - 1)
    IN  IF startswith(ref, <<"/","/">>) THEN SubSeq(base, 1, sep) \o ref
        ELSE origin \o ref

----------------------------------------------------------------------------
(* streamlit: @st.cache_data.  The first call of the decorated function    *)
(* runs it and stores a copy of the result; every later call returns a copy *)
(* of the stored result and does not run the function (no ttl, and the     *)
(* dashboard never clears the cache).                                      *)

NotCached == [companies |-> {}, previous_jobs |-> {}]

cache_data(cached, value) == IF cached = {} THEN value ELSE CHOOSE v \in cached : TRUE

----------------------------------------------------------------------------
(* The remote web.  A response is [exc, status, soup]: exc is TRUE when    *)
(* requests.get raises (timeout, DNS, connection, invalid URL); soup is    *)
(* the parsed document, a sequence of elements in document order.  An      *)
(* element is [sels, name, text, href, link]: the selectors of the catalog *)
(* that match it, its tag name, get_text(strip=True), its own href         *)
(* attribute and its first descendant <a> (None, or that link's href).     *)

El(sels, name, text, href, link) ==
    [sels |-> sels, name |-> name, text |-> text, href |-> href, link |-> link]

Failure == [exc |-> TRUE, status |-> 0, soup |-> << >>]

Page(status, soup) == [exc |-> FALSE, status |-> status, soup |-> soup]

requests_get(w, url) == IF url \in DOMAIN w THEN w[url] ELSE Failure

\* Response.raise_for_status raises for 4xx and 5xx
raise_for_status(response) == response.status >= 400 /\ response.status < 600

----------------------------------------------------------------------------
(* Role filter *)

exclude_keywords ==
    << <<"e","n","g","i","n","e","e","r">>, <<"e","n","g","i","n","e","e","r","i","n","g">>, <<"d","e","v","e","l","o","p","e","r">>, <<"s","o","f","t","w","a","r","e">>, <<"f","r","o","n","t","e","n","d">>,
       <<"b","a","c","k","e","n","d">>, <<"f","u","l","l"," ","s","t","a","c","k">>, <<"d","e","v","o","p","s">>, <<"s","r","e">>, <<"l","e","g","a","l">>, <<"c","o","u","n","s","e","l">>,
       <<"a","t","t","o","r","n","e","y">>, <<"l","a","w","y","e","r">>, <<"p","a","r","a","l","e","g","a","l">> >>

\* a faulty variant: the title is not lower-cased before the match
should_exclude_role_cased(job_title) ==
    \E k \in 1..Len(exclude_keywords) : contains(job_title, exclude_keywords[k])

should_exclude_role(job_title) ==
    LET job_lower == lower(job_title)
    IN  \E k \in 1..Len(exclude_keywords) : contains(job_lower, exclude_keywords[k])

----------------------------------------------------------------------------
(* Page scraper *)

job_selectors ==
    << ".opening", ".opening-title", "[data-test=\"job-title\"]",
       ".posting-title", ".posting",
       "[data-automation-id*=\"job\"]",
       ".BambooHR-ATS-Jobs-Item",
       ".job-title", ".job-listing", ".position", ".role",
       "h3 a[href*=\"job\"]", "a[href*=\"position\"]", "a[href*=\"career\"]" >>

\* soup.select(selector): the matching elements in document order
select(soup, selector) == SelectSeq(soup, LAMBDA e : selector \in e.sels)

\* lines 275-281: the href of the element, or of its first descendant link
element_url(element) ==
    IF element.name = "a"
    THEN (IF element.href = {} THEN << >> ELSE CHOOSE u \in element.href : TRUE)
    ELSE IF element.link = {} THEN << >>
    ELSE LET l == CHOOSE x \in element.link : TRUE
         IN  IF l = {} THEN << >> ELSE CHOOSE u \in l : TRUE

\* lines 283-286
absolutize(url, job_url) ==
    IF startswith(job_url, <<"/">>) THEN urljoin(url, job_url) ELSE job_url

Posting(title, url, company, date) ==
    [title |-> title, url |-> url, company |-> company, scraped_date |-> date]

\* lines 266-293: the inner loop over the elements one selector matched
RECURSIVE extract(_, _, _, _, _, _)
extract(elements, i, jobs, url, company_name, date) ==
    IF i > Len(elements) THEN jobs
    ELSE LET element   == elements[i]
             job_title == element.text
         IN  IF should_exclude_role(job_title)
             THEN extract(elements, i + 1, jobs, url, company_name, date)
             ELSE IF job_title # << >> /\ Len(job_title) > 3
             THEN extract(elements, i + 1,
                      Append(jobs, Posting(job_title,
                                           absolutize(url, element_url(element)),
                                           company_name, date)),
                      url, company_name, date)
             ELSE extract(elements, i + 1, jobs, url, company_name, date)

\* a faulty variant: the loop over the selectors never breaks
stop_never(jobs) == FALSE

\* line 295: if jobs: break
stop_trying(jobs) == jobs # << >>

\* lines 263-296: the loop over the catalog; tried is the number of selectors
\* that were applied to the page
RECURSIVE selector_loop(_, _, _, _, _, _)
selector_loop(soup, s, jobs, url, company_name, date) ==
    IF s > Len(job_selectors) THEN [jobs |-> jobs, tried |-> Len(job_selectors)]
    ELSE LET elements == select(soup, job_selectors[s])
             found    == extract(elements, 1, jobs, url, company_name, date)
         IN  IF stop_trying(found) THEN [jobs |-> found, tried |-> s]
             ELSE selector_loop(soup, s + 1, found, url, company_name, date)

\* a faulty variant: duplicates are kept
keep_all(jobs) == jobs

\* lines 298-304: remove duplicates, first occurrence kept
RECURSIVE unique_loop(_, _, _, _)
unique_loop(jobs, i, seen_titles, acc) ==
    IF i > Len(jobs) THEN acc
    ELSE IF jobs[i].title \notin seen_titles
    THEN unique_loop(jobs, i + 1, seen_titles \cup {jobs[i].title}, Append(acc, jobs[i]))
    ELSE unique_loop(jobs, i + 1, seen_titles, acc)

unique_jobs(jobs) == unique_loop(jobs, 1, {}, << >>)

JobLimit == 20

\* a faulty variant: no cap
no_limit(unique) == unique

\* line 306: unique_jobs[:20]
limit(unique) == SubSeq(unique, 1, IF Len(unique) < JobLimit THEN Len(unique) ELSE JobLimit)

scrape_job_page(w, url, company_name, date) ==
    IF url = << >> THEN << >>
    ELSE LET response == requests_get(w, url)
         IN  IF response.exc \/ raise_for_status(response) THEN << >>
             ELSE limit(unique_jobs(
                     selector_loop(response.soup, 1, << >>, url, company_name, date).jobs))

----------------------------------------------------------------------------
(* SpecScrape: scrape_job_page applied to one page.  The small pages are   *)
(* all the sequences of at most MaxElems elements of ElemPool; the big     *)
(* pages have up to MaxBig elements of one selector with numbered titles.  *)

PageUrl == <<"h","t","t","p","s",":","/","/","x",".","c","o","/","j","o","b","s">>

TestCompany == <<"T","e","s","t"," ","C","o","m","p","a","n","y">>

ElemPool ==
    { El({".opening"}, "div", <<"S","o","f","t","w","a","r","e"," ","E","n","g","i","n","e","e","r">>, {}, {{<<"/","j","o","b","s","/","1">>}}),
      El({".opening"}, "a", <<"S","a","l","e","s"," ","M","a","n","a","g","e","r">>, {<<"/","j","o","b","s","/","2">>}, {}),
      El({".opening"}, "a", <<"S","a","l","e","s"," ","M","a","n","a","g","e","r">>, {<<"h","t","t","p","s",":","/","/","y",".","c","o","/","p","/","6">>}, {}),
      El({".posting"}, "div", <<"S","a","l","e","s"," ","M","a","n","a","g","e","r">>, {}, {{<<"h","t","t","p","s",":","/","/","x",".","c","o","/","p","/","3">>}}),
      El({".opening", ".job-title"}, "div", <<"P","M">>, {}, {}),
      El({".job-title"}, "a", <<"C","u","s","t","o","m","e","r"," ","S","u","c","c","e","s","s"," ","L","e","a","d">>, {<<"a","p","p","l","y","/","5">>}, {}),
      El({".posting"}, "div", <<"P","a","r","a","l","e","g","a","l">>, {}, {{}}),
      El({".role"}, "div", <<"S","e","n","i","o","r"," ","D","e","v","O","p","s"," ","E","n","g","i","n","e","e","r">>, {}, {}) }

Digit(d) ==
    CASE d = 0 -> "0" [] d = 1 -> "1" [] d = 2 -> "2" [] d = 3 -> "3" [] d = 4 -> "4"
      [] d = 5 -> "5" [] d = 6 -> "6" [] d = 7 -> "7" [] d = 8 -> "8" [] OTHER -> "9"

NumTitle(k) == <<"R","o","l","e"," ">> \o <<Digit((k \div 10) % 10), Digit(k % 10)>>

\* n elements, titles numbered downwards from m and repeating with period m;
\* the third family repeats the last of m distinct titles once more
BigPage(n, m) ==
    [i \in 1..n |-> El({".job-title"}, "a", NumTitle(m - ((i - 1) % m)), {<<"/","j">>}, {})]

ScrapeInputs ==
    {Page(200, p) : p \in SeqsUpTo(ElemPool, MaxElems)}
        \cup {Page(200, BigPage(n, m)) : n \in 18..MaxBig, m \in 18..MaxBig}
        \cup {Page(200, Append(BigPage(m, m), BigPage(m, m)[m])) : m \in 18..MaxBig}
        \cup {Page(404, << El({".opening"}, "a", <<"S","a","l","e","s"," ","M","a","n","a","g","e","r">>, {<<"/","j","o","b","s","/","2">>}, {}) >>), Failure}

Idle ==
    /\ companies_file = << >> /\ jobs_file = << >>
    /\ companies = << >> /\ previous_jobs = << >>
    /\ idx = 0 /\ new_jobs = << >> /\ web = << >>
    /\ now = 0 /\ remote_changed = FALSE /\ st_cache = NotCached /\ st_runs = 0

InitScrape == Idle /\ pc = "call" /\ input \in ScrapeInputs /\ output = << >>

Scrape ==
    /\ pc = "call"
    /\ output' = scrape_job_page([u \in {PageUrl} |-> input], PageUrl, TestCompany, now)
    /\ pc' = "returned"
    /\ UNCHANGED <<companies_file, jobs_file, companies, previous_jobs, idx,
                   new_jobs, web, st_cache, st_runs, now, remote_changed, input>>

NextScrape == Scrape

SpecScrape == InitScrape /\ [][NextScrape]_vars

----------------------------------------------------------------------------
(* Careers-page finder *)

careers_words == << <<"c","a","r","e","e","r">>, <<"j","o","b">>, <<"h","i","r","i","n","g">>, <<"w","o","r","k">> >>

\* soup.find_all('a', href=True) in document order: an element that is a
\* link, then its first descendant link, whose text is part of its text
RECURSIVE find_all_a(_, _)
find_all_a(soup, i) ==
    IF i > Len(soup) THEN << >>
    ELSE LET e    == soup[i]
             own  == IF e.name = "a" /\ e.href # {}
                     THEN << [href |-> CHOOSE u \in e.href : TRUE, text |-> e.text] >>
                     ELSE << >>
             desc == IF e.link # {} /\ (CHOOSE x \in e.link : TRUE) # {}
                     THEN << [href |-> element_url([e EXCEPT !.name = "div"]),
                              text |-> e.text] >>
                     ELSE << >>
         IN  own \o desc \o find_all_a(soup, i + 1)

\* line 370
is_careers_link(link) ==
    \E k \in DOMAIN careers_words :
        \/ contains(lower(link.href), careers_words[k])
        \/ contains(lower(link.text), careers_words[k])

\* lines 366-375
RECURSIVE careers_links(_, _, _)
careers_links(links, i, website_url) ==
    IF i > Len(links) THEN << >>
    ELSE IF is_careers_link(links[i])
    THEN << absolutize(website_url, links[i].href) >> \o careers_links(links, i + 1, website_url)
    ELSE careers_links(links, i + 1, website_url)

CareersLimit == 3

find_careers_page(w, website_url) ==
    LET response == requests_get(w, website_url)
    IN  IF response.exc THEN << >>
        ELSE LET found == careers_links(find_all_a(response.soup, 1), 1, website_url)
             IN  SubSeq(found, 1, IF Len(found) < CareersLimit THEN Len(found) ELSE CareersLimit)

----------------------------------------------------------------------------
(* Snapshot store and diff: check_for_new_jobs *)

Company(name, website, jobs_page, date) ==
    [name |-> name, website |-> website, jobs_page |-> jobs_page, date_added |-> date]

\* line 344
company_key(company) == replace(lower(company), " ", "_")

\* dict.get(key, [])
Get(d, key) == IF key \in DOMAIN d THEN d[key] ELSE << >>

\* lines 338-341
RECURSIVE careers_loop(_, _, _, _, _)
careers_loop(w, careers_urls, i, company, date) ==
    IF i > Len(careers_urls) THEN << >>
    ELSE LET jobs_from_page == scrape_job_page(w, careers_urls[i], company, date)
         IN  IF jobs_from_page # << >> THEN jobs_from_page
             ELSE careers_loop(w, careers_urls, i + 1, company, date)

\* lines 330-341: the jobs page first, then the careers pages of the website
scrape_company(w, info, date) ==
    LET first == IF info.jobs_page # << >>
                 THEN scrape_job_page(w, info.jobs_page, info.name, date)
                 ELSE << >>
    IN  IF first = << >> /\ info.website # << >>
        THEN careers_loop(w, find_careers_page(w, info.website), 1, info.name, date)
        ELSE first

\* lines 345-350: the postings whose title is not in the stored snapshot
diff(stored, jobs_from_page) ==
    LET previous_titles == {stored[i].title : i \in DOMAIN stored}
    IN  SelectSeq(jobs_from_page, LAMBDA job : job.title \notin previous_titles)

\* a faulty variant: the scrape is appended to the stored list
append_snapshot(snapshots, key, jobs_from_page) ==
    [k \in DOMAIN snapshots \cup {key} |->
        IF k = key THEN Get(snapshots, key) \o jobs_from_page ELSE snapshots[k]]

\* line 353: self.previous_jobs[company_key] = jobs_from_page
store_snapshot(snapshots, key, jobs_from_page) ==
    [k \in DOMAIN snapshots \cup {key} |->
        IF k = key THEN jobs_from_page ELSE snapshots[k]]

----------------------------------------------------------------------------
(* Spec: the daily runs of the tracker against a web that may change       *)
(* between two runs.  The registry is one of the sequences of at most      *)
(* MaxCompanies companies of CompanyPool; two of them, "Acme Co" and       *)
(* "acme_co", are different names with the same key.                       *)

JobsA == <<"h","t","t","p","s",":","/","/","a",".","c","o","/","j","o","b","s">>

HomeA == <<"h","t","t","p","s",":","/","/","a",".","c","o">>

HomeB == <<"h","t","t","p","s",":","/","/","b",".","c","o">>

CareersB == <<"h","t","t","p","s",":","/","/","b",".","c","o","/","c","a","r","e","e","r","s">>

CompanyPool ==
    { Company(<<"A","c","m","e"," ","C","o">>, HomeA, JobsA, 0),
      Company(<<"a","c","m","e","_","c","o">>, HomeB, << >>, 0),
      Company(<<"B","e","t","a">>, << >>, << >>, 0) }

Registries ==
    {r \in SeqsUpTo(CompanyPool, MaxCompanies) :
        \A i, j \in DOMAIN r : i # j => r[i].name # r[j].name}

PageA1 ==
    << El({".posting"}, "div", <<"R","o","l","e"," ","A">>, {}, {{<<"/","j","/","a">>}}),
       El({".posting"}, "div", <<"R","o","l","e"," ","B">>, {}, {{<<"/","j","/","b">>}}) >>

PageA2 ==
    << El({".posting"}, "div", <<"R","o","l","e"," ","B">>, {}, {{<<"/","j","/","b">>}}),
       El({".posting"}, "div", <<"R","o","l","e"," ","C">>, {}, {{<<"/","j","/","c">>}}) >>

HomePageB ==
    << El({}, "a", <<"A","b","o","u","t"," ","u","s">>, {<<"/","a","b","o","u","t">>}, {}),
       El({}, "a", <<"C","a","r","e","e","r","s">>, {<<"/","c","a","r","e","e","r","s">>}, {}) >>

CareersPageB ==
    << El({".job-title"}, "a", <<"R","o","l","e"," ","A">>, {<<"/","c","a","r","e","e","r","s","/","1">>}, {}),
       El({".job-title"}, "a", <<"R","o","l","e"," ","D">>, {<<"/","c","a","r","e","e","r","s","/","4">>}, {}) >>

\* HomeA is never reachable: requests.get raises for it
Webs ==
    { [u \in {JobsA, HomeB, CareersB} |->
          IF u = JobsA THEN a ELSE IF u = HomeB THEN b ELSE Page(200, CareersPageB)] :
        a \in {Failure, Page(200, PageA1), Page(200, PageA2)},
        b \in {Failure, Page(404, HomePageB), Page(200, HomePageB)} }

Init ==
    /\ companies_file \in Registries
    /\ jobs_file = << >>
    /\ companies = << >> /\ previous_jobs = << >>
    /\ pc = "idle" /\ idx = 0 /\ new_jobs = << >>
    /\ web \in Webs
    /\ now = 1 /\ remote_changed = FALSE /\ st_cache = NotCached /\ st_runs = 0
    /\ input = << >> /\ output = << >>

\* lines 21-38: JobTracker() reads the two files
load_data ==
    /\ pc = "idle"
    /\ companies' = companies_file
    /\ previous_jobs' = jobs_file
    /\ pc' = "loaded"
    /\ UNCHANGED <<companies_file, jobs_file, idx, new_jobs, web, st_cache, st_runs, now,
                   remote_changed, input, output>>

\* line 325: check_for_new_jobs starts
check_for_new_jobs ==
    /\ pc = "loaded"
    /\ new_jobs' = << >>
    /\ idx' = 1
    /\ pc' = "loop"
    /\ UNCHANGED <<companies_file, jobs_file, companies, previous_jobs, web, st_cache, st_runs, now,
                   remote_changed, input, output>>

\* lines 327-353: one company of the loop
check_company ==
    /\ pc = "loop"
    /\ idx <= Len(companies)
    /\ LET info           == companies[idx]
           jobs_from_page == scrape_company(web, info, now)
           key            == company_key(info.name)
       IN  /\ new_jobs' = new_jobs \o diff(Get(previous_jobs, key), jobs_from_page)
           /\ previous_jobs' = store_snapshot(previous_jobs, key, jobs_from_page)
    /\ idx' = idx + 1
    /\ UNCHANGED <<companies_file, jobs_file, companies, pc, web, st_cache, st_runs, now,
                   remote_changed, input, output>>

\* a faulty variant: the final save writes the snapshot store only
save_data_snapshots ==
    /\ pc = "loop"
    /\ idx > Len(companies)
    /\ jobs_file' = previous_jobs
    /\ pc' = "done"
    /\ UNCHANGED <<companies_file, companies, previous_jobs, idx, new_jobs, web, st_cache,
                   st_runs, now, remote_changed, input, output>>

\* lines 355-356 and 40-45: the final save; new_jobs is returned
save_data ==
    /\ pc = "loop"
    /\ idx > Len(companies)
    /\ companies_file' = companies
    /\ jobs_file' = previous_jobs
    /\ pc' = "done"
    /\ UNCHANGED <<companies, previous_jobs, idx, new_jobs, web, st_cache, st_runs, now,
                   remote_changed, input, output>>

\* the process ends; the next daily run is a new process
next_run ==
    /\ pc = "done"
    /\ now < MaxCycles
    /\ now' = now + 1
    /\ remote_changed' = FALSE
    /\ pc' = "idle"
    /\ UNCHANGED <<companies_file, jobs_file, companies, previous_jobs, idx,
                   new_jobs, web, st_cache, st_runs, input, output>>

\* the remote pages change between two runs
remote_change ==
    /\ pc = "idle"
    /\ ~remote_changed
    /\ web' \in Webs \ {web}
    /\ remote_changed' = TRUE
    /\ UNCHANGED <<companies_file, jobs_file, companies, previous_jobs, pc, idx,
                   new_jobs, now, st_cache, st_runs, input, output>>

Next ==
    \/ load_data
    \/ check_for_new_jobs
    \/ check_company
    \/ save_data
    \/ next_run
    \/ remote_change

Spec == Init /\ [][Next]_vars

----------------------------------------------------------------------------
(* Email parsers.  The email body is the sequence of its lines (the result *)
(* of split('\n')).  The result dict is a sequence of company records in   *)
(* insertion order; assigning to a key that is present replaces the value  *)
(* in place.                                                               *)

\* position of name in the dict, 0 if absent
dict_index(d, name) ==
    IF \E k \in DOMAIN d : d[k].name = name
    THEN CHOOSE k \in DOMAIN d : d[k].name = name
    ELSE 0

\* d[name] = record
dict_set(d, name, record) ==
    IF dict_index(d, name) # 0 THEN [d EXCEPT ![dict_index(d, name)] = record]
    ELSE Append(d, record)

\* the end of the run of characters outside stop that starts at position i
RECURSIVE run_end(_, _, _)
run_end(line, i, stop) ==
    IF i > Len(line) \/ line[i] \in stop THEN i - 1 ELSE run_end(line, i + 1, stop)

\* re.findall(r'https?://[^...]+', line), stop being the excluded characters
RECURSIVE findall_urls(_, _, _)
findall_urls(line, i, stop) ==
    IF i > Len(line) THEN << >>
    ELSE LET prefix == IF occurs_at(line, <<"h","t","t","p","s",":","/","/">>, i) THEN 8
                       ELSE IF occurs_at(line, <<"h","t","t","p",":","/","/">>, i) THEN 7 ELSE 0
             last   == run_end(line, i + prefix, stop)
         IN  IF prefix > 0 /\ last >= i + prefix
             THEN << SubSeq(line, i, last) >> \o findall_urls(line, last + 1, stop)
             ELSE findall_urls(line, i + 1, stop)

\* url.rstrip('.,;)')
clean_url(url) == rstrip(url, {".", ",", ";", ")"})

(* job_tracker.py: the structured "Funding Amount:" parser *)

skip_words ==
    << <<"f","u","n","d","e","d"," ","&"," ","h","i","r","i","n","g">>, <<"b","i","w","e","e","k","l","y"," ","n","e","w","s","l","e","t","t","e","r">>, <<"s","u","b","s","c","r","i","b","e">>, <<"f","o","r","w","a","r","d","e","d">>,
       <<"s","t","a","r","t","u","p"," ","f","u","n","d","i","n","g">>, <<"j","o","b"," ","a","l","e","r","t","s">>, <<"s","t","a","y"," ","u","p"," ","t","o"," ","d","a","t","e">>, <<"s","u","n","d","a","y">> >>

url_denylist ==
    << <<"s","u","b","s","c","r","i","b","e">>, <<"u","n","s","u","b","s","c","r","i","b","e">>, <<"t","r","a","c","k">>, <<"u","t","m","_">>, <<"m","a","i","l","c","h","i">>,
       <<"e","m","a","i","l">>, <<"n","e","w","s","l","e","t","t","e","r">>, <<"s","u","b","s","t","a","c","k">> >>

\* lines 160-163
skipped(line) ==
    line = << >> \/ \E k \in DOMAIN skip_words : contains(lower(line), skip_words[k])

\* lines 193-196
denylisted(url) == \E k \in DOMAIN url_denylist : contains(lower(url), url_denylist[k])

\* lines 167-177: the company name the line at position i states, if any; the
\* bullet character is the one-character string "bullet"
company_name_at(lines, i) ==
    LET line         == strip(lines[i])
        next_line    == IF i + 1 <= Len(lines) THEN strip(lines[i + 1]) ELSE << >>
        company_name == rstrip(lstrip(strip(line), {"bullet", "-", "*"} \cup Whitespace),
                               Whitespace)
    IN  IF /\ ~skipped(line)
           /\ startswith(next_line, <<"F","u","n","d","i","n","g"," ","A","m","o","u","n","t",":">>) /\ line # << >>
           /\ company_name # << >> /\ Len(company_name) < 100
        THEN {company_name}
        ELSE {}

\* a faulty variant: every URL that is not denylisted replaces the website
RECURSIVE assign_urls_last(_, _, _, _)
assign_urls_last(d, current_company, urls, k) ==
    IF k > Len(urls) THEN d
    ELSE LET url == clean_url(urls[k])
             at  == IF current_company = {} THEN 0
                    ELSE dict_index(d, CHOOSE c \in current_company : TRUE)
         IN  IF denylisted(url) THEN assign_urls_last(d, current_company, urls, k + 1)
             ELSE IF at # 0
             THEN assign_urls_last([d EXCEPT ![at].website = url], current_company, urls, k + 1)
             ELSE assign_urls_last(d, current_company, urls, k + 1)

\* lines 188-203: the URLs of one line, in order
RECURSIVE assign_urls(_, _, _, _)
assign_urls(d, current_company, urls, k) ==
    IF k > Len(urls) THEN d
    ELSE LET url == clean_url(urls[k])
             at  == IF current_company = {} THEN 0
                    ELSE dict_index(d, CHOOSE c \in current_company : TRUE)
         IN  IF denylisted(url) THEN assign_urls(d, current_company, urls, k + 1)
             ELSE IF at # 0 /\ d[at].website = << >>
             THEN assign_urls([d EXCEPT ![at].website = url], current_company, urls, k + 1)
             ELSE assign_urls(d, current_company, urls, k + 1)

\* lines 156-203: one iteration of the loop over the lines; st is
\* [i, companies, current_company]
parse_line(lines, st, date) ==
    LET line  == strip(lines[st.i])
        name  == company_name_at(lines, st.i)
        cur   == IF name = {} THEN st.current_company ELSE name
        named == IF name = {} THEN st.companies
                 ELSE LET n == CHOOSE c \in name : TRUE
                      IN  dict_set(st.companies, n, Company(n, << >>, << >>, date))
    IN  IF skipped(line) THEN [st EXCEPT !.i = st.i + 1]
        ELSE [i |-> st.i + 1,
              companies |-> assign_urls(named, cur, findall_urls(line, 1, Whitespace \cup {")"}), 1),
              current_company |-> cur]

(* streamlit_app.py: the free-form parser *)

link_prefixes == << <<"h","t","t","p">>, <<"w","w","w">>, <<"W","e","b","s","i","t","e",":">>, <<"J","o","b","s",":">>, <<"C","a","r","e","e","r","s",":">> >>

stop_words == << <<"t","h","e">>, <<"a","n","d">>, <<"f","u","n","d","e","d">>, <<"h","i","r","i","n","g">> >>

jobs_words == << <<"j","o","b">>, <<"c","a","r","e","e","r">>, <<"h","i","r","i","n","g">> >>

\* the dash-like separators: hyphen, en dash, em dash
Dashes == {"-", "en-dash", "em-dash"}

\* re.split(r'\s*[-...]\s*', line)[0].strip(): the text before the first dash
before_dash(line) ==
    LET first == run_end(line, 1, Dashes)
    IN  strip(SubSeq(line, 1, first))

\* line 46
is_link_line(line) ==
    line = << >> \/ \E k \in DOMAIN link_prefixes : startswith(line, link_prefixes[k])

\* lines 46-49: the company name the line states, if any
st_company_name(raw) ==
    LET line == strip(raw)
    IN  IF /\ ~is_link_line(line)
           /\ Len(line) < 100
           /\ ~\E k \in DOMAIN stop_words : contains(lower(line), stop_words[k])
           /\ before_dash(line) # << >>
        THEN {before_dash(line)}
        ELSE {}

\* a faulty variant: every URL replaces the website
RECURSIVE st_assign_urls_last(_, _, _, _, _)
st_assign_urls_last(d, at, line, urls, k) ==
    IF k > Len(urls) THEN d
    ELSE LET url == clean_url(urls[k])
         IN  IF \E w \in DOMAIN jobs_words : contains(lower(line), jobs_words[w])
             THEN st_assign_urls_last([d EXCEPT ![at].jobs_page = url], at, line, urls, k + 1)
             ELSE st_assign_urls_last([d EXCEPT ![at].website = url], at, line, urls, k + 1)

\* lines 60-66
RECURSIVE st_assign_urls(_, _, _, _, _)
st_assign_urls(d, at, line, urls, k) ==
    IF k > Len(urls) THEN d
    ELSE LET url == clean_url(urls[k])
         IN  IF \E w \in DOMAIN jobs_words : contains(lower(line), jobs_words[w])
             THEN st_assign_urls([d EXCEPT ![at].jobs_page = url], at, line, urls, k + 1)
             ELSE IF d[at].website = << >>
             THEN st_assign_urls([d EXCEPT ![at].website = url], at, line, urls, k + 1)
             ELSE st_assign_urls(d, at, line, urls, k + 1)

\* lines 42-66: one iteration of the loop over the lines
st_parse_line(lines, st, date) ==
    LET line == strip(lines[st.i])
        name == st_company_name(lines[st.i])
    IN  IF ~is_link_line(line)
        THEN IF name = {} THEN [st EXCEPT !.i = st.i + 1]
             ELSE LET n == CHOOSE c \in name : TRUE
                  IN  [i |-> st.i + 1,
                       companies |-> dict_set(st.companies, n, Company(n, << >>, << >>, date)),
                       current_company |-> name]
        ELSE IF st.current_company # {} /\ (contains(line, <<"h","t","t","p">>) \/ contains(line, <<"w","w","w">>))
        THEN [st EXCEPT !.i = st.i + 1,
                        !.companies = st_assign_urls(st.companies,
                            dict_index(st.companies, CHOOSE c \in st.current_company : TRUE),
                            line, findall_urls(line, 1, Whitespace), 1)]
        ELSE [st EXCEPT !.i = st.i + 1]

----------------------------------------------------------------------------
(* SpecParse: one call of a parser on an email of at most MaxLines lines,  *)
(* one line per step.                                                      *)

TrackerLines ==
    { <<"A","c","m","e"," ","R","o","b","o","t","i","c","s">>, <<"-"," ","A","c","m","e"," ","R","o","b","o","t","i","c","s">>, <<"S","u","n","d","a","y"," ","R","o","b","o","t","i","c","s">>, <<"F","u","n","d","i","n","g"," ","A","m","o","u","n","t",":"," ","$","1","0","M">>,
      <<"F","u","n","d","i","n","g"," ","A","m","o","u","n","t",":"," ","$","5","M"," ","(","h","t","t","p","s",":","/","/","a","c","m","e",".","e","x","a","m","p","l","e",".","o","r","g",")",".">>,
      <<"h","t","t","p","s",":","/","/","a","c","m","e",".","e","x","a","m","p","l","e",".","c","o","m">>,
      <<"h","t","t","p","s",":","/","/","l","n","k",".","e","x","a","m","p","l","e",".","c","o","m","/","?","u","t","m","_","s","o","u","r","c","e","=","m">> }

DashboardLines ==
    { <<"A","c","m","e"," ","R","o","b","o","t","i","c","s"," ","-"," ","b","u","i","l","d","s"," ","r","o","b","o","t","s">>, <<"B","e","t","a"," ","L","a","b","s">>,
      <<"W","e","b","s","i","t","e",":"," ","h","t","t","p","s",":","/","/","a","c","m","e",".","e","x","a","m","p","l","e",".","c","o","m">>,
      <<"J","o","b","s",":"," ","h","t","t","p","s",":","/","/","a","c","m","e",".","e","x","a","m","p","l","e",".","c","o","m","/","c","a","r","e","e","r","s">>,
      <<"h","t","t","p","s",":","/","/","a","c","m","e",".","e","x","a","m","p","l","e",".","c","o","m","/","a","b","o","u","t">>,
      <<"S","e","e"," ","h","t","t","p","s",":","/","/","a","c","m","e",".","e","x","a","m","p","l","e",".","c","o","m","/","a","b","o","u","t">> }

ParseInputs ==
    {[parser |-> "tracker", lines |-> l] : l \in SeqsUpTo(TrackerLines, MaxLines)}
        \cup {[parser |-> "dashboard", lines |-> l] : l \in SeqsUpTo(DashboardLines, MaxLines)}

InitParse ==
    /\ Idle /\ pc = "parsing"
    /\ input \in ParseInputs
    /\ output = [i |-> 1, companies |-> << >>, current_company |-> {}]

Others == <<companies_file, jobs_file, companies, previous_jobs, idx, new_jobs,
            web, st_cache, st_runs, now, remote_changed, input>>

parse_funded_hiring_email ==
    /\ pc = "parsing" /\ input.parser = "tracker"
    /\ output.i <= Len(input.lines)
    /\ output' = parse_line(input.lines, output, now)
    /\ UNCHANGED <<pc, Others>>

st_parse_funded_hiring_email ==
    /\ pc = "parsing" /\ input.parser = "dashboard"
    /\ output.i <= Len(input.lines)
    /\ output' = st_parse_line(input.lines, output, now)
    /\ UNCHANGED <<pc, Others>>

\* return companies
parse_return ==
    /\ pc = "parsing"
    /\ output.i > Len(input.lines)
    /\ pc' = "parsed"
    /\ UNCHANGED <<output, Others>>

NextParse ==
    \/ parse_funded_hiring_email
    \/ st_parse_funded_hiring_email
    \/ parse_return

SpecParse == InitParse /\ [][NextParse]_vars

----------------------------------------------------------------------------
(* SpecDash: the tracker's daily runs and the dashboard, two processes on  *)
(* the same two files.  A run of the dashboard's script (one interaction)  *)
(* is one step; the tracker makes one daily run.                           *)

\* lines 156-206: the loop of the tracker's parser over all lines
RECURSIVE parse_lines(_, _, _)
parse_lines(lines, st, date) ==
    IF st.i > Len(lines) THEN st.companies
    ELSE parse_lines(lines, parse_line(lines, st, date), date)

\* streamlit_app.py 42-68: the loop of the dashboard's parser over all lines
RECURSIVE st_parse_lines(_, _, _)
st_parse_lines(lines, st, date) ==
    IF st.i > Len(lines) THEN st.companies
    ELSE st_parse_lines(lines, st_parse_line(lines, st, date), date)

NoCompanies == [i |-> 1, companies |-> << >>, current_company |-> {}]

\* dict.keys()
keys(d) == {d[k].name : k \in DOMAIN d}

\* job_tracker.py 210-217: the loop of add_companies_to_tracking
RECURSIVE add_loop(_, _, _, _)
add_loop(cs, new_companies, k, added_count) ==
    IF k > Len(new_companies) THEN [companies |-> cs, added_count |-> added_count]
    ELSE IF new_companies[k].name \notin keys(cs)
    THEN add_loop(Append(cs, new_companies[k]), new_companies, k + 1, added_count + 1)
    ELSE add_loop(cs, new_companies, k + 1, added_count)

\* streamlit_app.py 93-97: the loop of the paste-and-parse path
RECURSIVE st_add_loop(_, _, _, _)
st_add_loop(cs, new_companies, k, added_count) ==
    IF k > Len(new_companies) THEN [companies |-> cs, added_count |-> added_count]
    ELSE IF new_companies[k].name \notin keys(cs)
    THEN st_add_loop(Append(cs, new_companies[k]), new_companies, k + 1, added_count + 1)
    ELSE st_add_loop(cs, new_companies, k + 1, added_count)

\* streamlit_app.py 247-252: the loop over companies_to_remove
st_remove(cs, pj, companies_to_remove) ==
    LET gone == {company_key(c) : c \in companies_to_remove}
        left == DOMAIN pj \ gone
    IN  [companies |-> SelectSeq(cs, LAMBDA c : c.name \notin companies_to_remove),
         previous_jobs |-> IF left = {} THEN << >> ELSE [k \in left |-> pj[k]]]

\* streamlit_app.py 75-76: the two loads at the top of main()
load_companies == cache_data(st_cache.companies, companies_file)

load_previous_jobs == cache_data(st_cache.previous_jobs, jobs_file)

\* the cache once main() has called the two loads
Cached == [companies |-> {load_companies}, previous_jobs |-> {load_previous_jobs}]

\* one email of each kind: it names a tracked company and a new one
TrackerEmails ==
    { << <<"A","c","m","e"," ","C","o">>, <<"F","u","n","d","i","n","g"," ","A","m","o","u","n","t",":"," ","$","1","0","M">>, <<"B","e","t","a">>, <<"F","u","n","d","i","n","g"," ","A","m","o","u","n","t",":"," ","$","1","0","M">>,
         <<"h","t","t","p","s",":","/","/","b",".","c","o">> >> }

DashEmails ==
    { << <<"A","c","m","e"," ","C","o">>, <<"B","e","t","a">>, <<"W","e","b","s","i","t","e",":"," ","h","t","t","p","s",":","/","/","b",".","c","o">> >> }

\* the parsers read the clock only for date_added: the parse of each email
\* is computed once, at date 0, and dated when it is used
TrackerParsed == [e \in TrackerEmails |-> parse_lines(e, NoCompanies, 0)]

DashParsed == [e \in DashEmails |-> st_parse_lines(e, NoCompanies, 0)]

dated(cs, date) == [k \in DOMAIN cs |-> [cs[k] EXCEPT !.date_added = date]]

ManualNames == { <<"B","e","t","a">> }

TheWeb ==
    [u \in {JobsA, HomeB, CareersB} |->
        IF u = JobsA THEN Page(200, PageA1)
        ELSE IF u = HomeB THEN Page(200, HomePageB) ELSE Page(200, CareersPageB)]

\* the registries of "Acme Co" and "acme_co"; "Beta" comes by email or by hand
DashRegistries == {r \in Registries : \A i \in DOMAIN r : r[i].name # <<"B","e","t","a">>}

InitDash ==
    /\ companies_file \in DashRegistries
    /\ jobs_file = << >>
    /\ companies = << >> /\ previous_jobs = << >>
    /\ pc = "idle" /\ idx = 0 /\ new_jobs = << >>
    /\ web = TheWeb
    /\ now = 1 /\ remote_changed = FALSE /\ st_cache = NotCached /\ st_runs = 0
    /\ input = << >> /\ output = << >>

Tracker == <<companies, previous_jobs, pc, idx, new_jobs, web, now, remote_changed>>

\* job_tracker.py 461-475: one email of check_new_funded_hiring_emails is
\* parsed and its companies are added; save_data writes both files
add_companies_to_tracking ==
    /\ pc = "loaded"
    /\ \E email \in TrackerEmails :
          LET new_companies == dated(TrackerParsed[email], now)
              r             == add_loop(companies, new_companies, 1, 0)
          IN  /\ companies' = r.companies
              /\ IF r.added_count > 0
                 THEN companies_file' = r.companies /\ jobs_file' = previous_jobs
                 ELSE UNCHANGED <<companies_file, jobs_file>>
              /\ input' = [op |-> "add_companies_to_tracking", email |-> email]
              /\ output' = [added_count |-> r.added_count]
    /\ UNCHANGED <<previous_jobs, pc, idx, new_jobs, web, now, remote_changed, st_cache,
                   st_runs>>

\* streamlit_app.py 70-76: main() runs with no button pressed
st_main ==
    /\ st_runs < MaxRuns
    /\ st_cache # Cached
    /\ st_cache' = Cached
    /\ st_runs' = st_runs + 1
    /\ UNCHANGED <<companies_file, jobs_file, Tracker, input, output>>

\* the Streamlit server starts again: the cache is empty
st_restart ==
    /\ st_runs < MaxRuns
    /\ st_cache # NotCached
    /\ st_cache' = NotCached
    /\ UNCHANGED <<companies_file, jobs_file, Tracker, st_runs, input, output>>

\* streamlit_app.py 89-107: "Parse Email & Add Companies"
st_parse_and_add ==
    /\ st_runs < MaxRuns
    /\ \E email_input \in DashEmails :
          LET new_companies == dated(DashParsed[email_input], now)
              r             == st_add_loop(load_companies, new_companies, 1, 0)
          IN  /\ IF new_companies # << >> /\ r.added_count > 0
                 THEN companies_file' = r.companies
                 ELSE UNCHANGED companies_file
              /\ input' = [op |-> "parse_and_add", email |-> email_input]
              /\ output' = [added_count |-> r.added_count]
    /\ st_cache' = Cached
    /\ st_runs' = st_runs + 1
    /\ UNCHANGED <<jobs_file, Tracker>>

\* streamlit_app.py 109-125: "Add Company"
st_add_company ==
    /\ st_runs < MaxRuns
    /\ \E company_name \in ManualNames, website_url \in {HomeB}, jobs_url \in {<< >>} :
          /\ company_name # << >> /\ website_url # << >>
          /\ companies_file' = dict_set(load_companies, company_name,
                                   Company(company_name, website_url, jobs_url, now))
          /\ input' = [op |-> "add_company", company_name |-> company_name]
    /\ output' = << >>
    /\ st_cache' = Cached
    /\ st_runs' = st_runs + 1
    /\ UNCHANGED <<jobs_file, Tracker>>

\* streamlit_app.py 240-259: "Remove Selected Companies"
st_remove_selected ==
    /\ st_runs < MaxRuns
    /\ load_companies # << >>
    /\ \E companies_to_remove \in (SUBSET keys(load_companies)) \ {{}} :
          LET r == st_remove(load_companies, load_previous_jobs, companies_to_remove)
          IN  /\ companies_file' = r.companies
              /\ jobs_file' = r.previous_jobs
              /\ input' = [op |-> "remove", companies_to_remove |-> companies_to_remove]
    /\ output' = << >>
    /\ st_cache' = Cached
    /\ st_runs' = st_runs + 1
    /\ UNCHANGED Tracker

NextDash ==
    \/ load_data
    \/ add_companies_to_tracking
    \/ check_for_new_jobs
    \/ check_company
    \/ save_data
    \/ st_main
    \/ st_restart
    \/ st_parse_and_add
    \/ st_add_company
    \/ st_remove_selected

SpecDash == InitDash /\ [][NextDash]_vars

----------------------------------------------------------------------------
(* Properties of check_for_new_jobs (Spec) *)

\* the step of the loop that processes companies[idx]
CompanyStep == pc = "loop" /\ pc' = "loop" /\ idx' = idx + 1

Titles(jobs) == {jobs[i].title : i \in DOMAIN jobs}

\* no other tracked company has the key of companies[i]
KeyUnshared(i) ==
    \A j \in DOMAIN companies :
        j # i => company_key(companies[j].name) # company_key(companies[i].name)

\* During the loop jobs_file still holds the snapshots stored before the
\* cycle: the file is written by the final save only.
\* C1: the delta contributed by a company is exactly the postings of the
\* current scrape, in scrape order, whose title is not the title of a
\* posting of the snapshot stored under the company's key before the cycle;
\* the title alone is compared.
C1_DeltaAgainstStoredSnapshot ==
    [][CompanyStep =>
          LET info   == companies[idx]
              scrape == scrape_company(web, info, now)
              before == Get(jobs_file, company_key(info.name))
          IN  new_jobs' = new_jobs \o
                  SelectSeq(scrape, LAMBDA job : job.title \notin Titles(before))]_vars

\* C2: after check_for_new_jobs processes a company the snapshot under its
\* key is exactly the posting list of the current scrape of that company,
\* whatever was stored and whatever the delta; the snapshots of the other
\* keys are untouched; a company with no jobs page and no website gets the
\* empty list.
C2_SnapshotReplaced ==
    [][CompanyStep =>
          LET info   == companies[idx]
              key    == company_key(info.name)
              scrape == scrape_company(web, info, now)
          IN  /\ key \in DOMAIN previous_jobs'
              /\ previous_jobs'[key] = scrape
              /\ \A i \in DOMAIN scrape : scrape[i].scraped_date = now
              /\ DOMAIN previous_jobs' = DOMAIN previous_jobs \cup {key}
              /\ \A k \in DOMAIN previous_jobs : k # key => previous_jobs'[k] = previous_jobs[k]
              /\ (info.jobs_page = << >> /\ info.website = << >>) => previous_jobs'[key] = << >>]_vars

\* C2 witness: the company just processed had a non-empty snapshot before
\* the cycle and an empty scrape replaced it
C2_Witness ==
    /\ pc = "loop" /\ idx > 1
    /\ LET key == company_key(companies[idx - 1].name)
       IN  /\ Get(jobs_file, key) # << >>
           /\ key \in DOMAIN previous_jobs
           /\ previous_jobs[key] = << >>

\* C3: a run that follows a finished run, with no remote page changed in
\* between, returns no new posting.
C3_Idempotent ==
    (pc = "done" /\ now >= 2 /\ ~remote_changed) => new_jobs = << >>

\* requests.get raises or the status is not 2xx
FetchFails(w, url) ==
    LET response == requests_get(w, url) IN response.exc \/ raise_for_status(response)

\* the jobs page of the company cannot be fetched (transport error or
\* non-2xx) and requests.get raises for its homepage, if it has one
Unreachable(w, info) ==
    /\ info.jobs_page # << >>
    /\ FetchFails(w, info.jobs_page)
    /\ info.website # << >> => requests_get(w, info.website).exc

\* C4: a cycle in which the fetch of a company's page fails leaves the
\* snapshot of that company as the most recent successful scrape stored it,
\* so that nothing already reported is reported again later (stated for a
\* company that shares its key with no other).
C4_FailedFetchKeepsSnapshot ==
    [][(CompanyStep /\ KeyUnshared(idx) /\ Unreachable(web, companies[idx])) =>
          LET key == company_key(companies[idx].name)
          IN  Get(previous_jobs', key) = Get(previous_jobs, key)]_vars

\* C9: when the fetch of a jobs page or of a homepage fails (transport
\* error, timeout or non-2xx status) scrape_job_page and find_careers_page
\* return the empty list, and the cycle processes every tracked company and
\* reaches its final save, after which every tracked company has a snapshot.
C9_FetchErrorsGiveEmptyList ==
    /\ \A i \in DOMAIN companies_file :
          LET info == companies_file[i]
          IN  /\ (info.jobs_page # << >> /\ FetchFails(web, info.jobs_page))
                    => scrape_job_page(web, info.jobs_page, info.name, now) = << >>
              /\ (info.website # << >> /\ FetchFails(web, info.website))
                    => find_careers_page(web, info.website) = << >>
    /\ pc = "done" =>
          \A i \in DOMAIN companies_file :
              company_key(companies_file[i].name) \in DOMAIN jobs_file

----------------------------------------------------------------------------
(* Properties of the email parsers (SpecParse) *)

\* a step that parses the line at output.i
ParseStep == pc = "parsing" /\ output'.i = output.i + 1

\* the company name the parser recognises on the line at output.i, if any
Recognised ==
    IF input.parser = "tracker" THEN company_name_at(input.lines, output.i)
    ELSE st_company_name(input.lines[output.i])

\* C10: within one parse call a company name already in the result map is
\* not overwritten: when the name is recognised again, the website and the
\* jobs page already recorded for it are kept.
C10_NotOverwritten ==
    [][(ParseStep /\ Recognised # {}) =>
          LET at == dict_index(output.companies, CHOOSE c \in Recognised : TRUE)
          IN  at # 0 =>
                /\ output.companies[at].website # << >> =>
                      output'.companies[at].website = output.companies[at].website
                /\ output.companies[at].jobs_page # << >> =>
                      output'.companies[at].jobs_page = output.companies[at].jobs_page]_vars

\* the URLs of the line at output.i as the dashboard parser reads them
StUrls ==
    LET found == findall_urls(strip(input.lines[output.i]), 1, Whitespace)
    IN  [k \in DOMAIN found |-> clean_url(found[k])]

\* the line at output.i mentions a job, a career or hiring
JobsLine ==
    \E w \in DOMAIN jobs_words : contains(lower(strip(input.lines[output.i])), jobs_words[w])

\* the URLs of the line go to the company that was current before the
\* step: the last one as its jobs page when the line is a jobs line, else
\* the first one as its website unless a website is recorded; nothing else
\* of the result changes
Attributed ==
    LET urls == StUrls
        at   == dict_index(output.companies, CHOOSE c \in output.current_company : TRUE)
        old  == output.companies[at]
        new  == IF JobsLine THEN [old EXCEPT !.jobs_page = urls[Len(urls)]]
                ELSE IF old.website = << >> THEN [old EXCEPT !.website = urls[1]]
                ELSE old
    IN  /\ at # 0
        /\ output'.current_company = output.current_company
        /\ output'.companies = [output.companies EXCEPT ![at] = new]

AcmeExample ==
    << <<"A","c","m","e"," ","R","o","b","o","t","i","c","s"," ","-"," ","b","u","i","l","d","s"," ","r","o","b","o","t","s">>,
       <<"W","e","b","s","i","t","e",":"," ","h","t","t","p","s",":","/","/","a","c","m","e",".","e","x","a","m","p","l","e",".","c","o","m">>,
       <<"J","o","b","s",":"," ","h","t","t","p","s",":","/","/","a","c","m","e",".","e","x","a","m","p","l","e",".","c","o","m","/","c","a","r","e","e","r","s">> >>

AcmeResult ==
    << [name |-> <<"A","c","m","e"," ","R","o","b","o","t","i","c","s">>, website |-> <<"h","t","t","p","s",":","/","/","a","c","m","e",".","e","x","a","m","p","l","e",".","c","o","m">>,
        jobs_page |-> <<"h","t","t","p","s",":","/","/","a","c","m","e",".","e","x","a","m","p","l","e",".","c","o","m","/","c","a","r","e","e","r","s">>, date_added |-> now] >>

DashboardStep == ParseStep /\ input.parser = "dashboard"

TrackerStep == ParseStep /\ input.parser = "tracker"

FundingMarker == <<"F","u","n","d","i","n","g"," ","A","m","o","u","n","t",":">>

\* the line at output.i is followed by a "Funding Amount:" line
BeforeFunding ==
    /\ output.i + 1 <= Len(input.lines)
    /\ startswith(strip(input.lines[output.i + 1]), FundingMarker)

\* the line at output.i without its leading bullets, dashes, stars and spaces
Undecorated ==
    rstrip(lstrip(strip(input.lines[output.i]), {"bullet", "-", "*"} \cup Whitespace), Whitespace)

\* the URLs of the line at output.i that are not denylisted, as the tracker's
\* parser reads them
GoodUrls ==
    LET found == findall_urls(strip(input.lines[output.i]), 1, Whitespace \cup {")"})
    IN  SelectSeq([k \in DOMAIN found |-> clean_url(found[k])], LAMBDA u : ~denylisted(u))

\* the line at output.i has one of the newsletter phrases of the skip list
HasSkipPhrase ==
    \E k \in DOMAIN skip_words : contains(lower(strip(input.lines[output.i])), skip_words[k])

\* no record of the result has a jobs page or a denylisted website
NoJobsPageNoDenylisted ==
    \A k \in DOMAIN output'.companies :
        /\ output'.companies[k].jobs_page = << >>
        /\ ~denylisted(output'.companies[k].website)

FundingExample == << <<"A","c","m","e"," ","R","o","b","o","t","i","c","s">>, <<"F","u","n","d","i","n","g"," ","A","m","o","u","n","t",":"," ","$","1","0","M">>, <<"h","t","t","p","s",":","/","/","a","c","m","e",".","e","x","a","m","p","l","e",".","c","o","m">> >>

FundingResult ==
    << [name |-> <<"A","c","m","e"," ","R","o","b","o","t","i","c","s">>, website |-> <<"h","t","t","p","s",":","/","/","a","c","m","e",".","e","x","a","m","p","l","e",".","c","o","m">>,
        jobs_page |-> << >>, date_added |-> now] >>

FundingExampleHolds ==
    (pc' = "parsed" /\ input.parser = "tracker" /\ input.lines = FundingExample)
        => output.companies = FundingResult

\* C12 as stated: every non-empty line whose next line starts with "Funding
\* Amount:" is recorded as a company name without its decorations; a URL on
\* any subsequent line is assigned to the current company's website unless
\* it is denylisted; denylisted URLs are never assigned and jobs_page stays
\* empty; the example gives {Acme Robotics: website, jobs_page ""}.
C12_EveryNameEveryUrl ==
    [][/\ (TrackerStep /\ strip(input.lines[output.i]) # << >> /\ BeforeFunding)
             => /\ output'.current_company = {Undecorated}
                /\ dict_index(output'.companies, Undecorated) # 0
       /\ (TrackerStep /\ output.current_company # {} /\ GoodUrls # << >>)
             => LET at == dict_index(output'.companies,
                                     CHOOSE c \in output'.current_company : TRUE)
                IN  \E k \in DOMAIN GoodUrls : output'.companies[at].website = GoodUrls[k]
       /\ TrackerStep => NoJobsPageNoDenylisted
       /\ FundingExampleHolds]_vars

\* C12 amended: a line without a newsletter phrase of the skip list whose
\* next line starts with "Funding Amount:" is recorded as a company name
\* without its decorations (when that name is not empty and shorter than 100
\* characters); a line with a skip phrase is passed over, name and URLs; the
\* first URL that is not denylisted, on the name line or on a later line,
\* becomes the current company's website and later URLs do not replace it;
\* denylisted URLs are never assigned and jobs_page stays empty; the example
\* gives {Acme Robotics: website, jobs_page ""}.
C12_UnskippedNamesFirstUrl ==
    [][/\ (TrackerStep /\ HasSkipPhrase)
             => /\ output'.companies = output.companies
                /\ output'.current_company = output.current_company
       /\ (/\ TrackerStep /\ ~HasSkipPhrase /\ strip(input.lines[output.i]) # << >>
           /\ BeforeFunding /\ Undecorated # << >> /\ Len(Undecorated) < 100)
             => /\ output'.current_company = {Undecorated}
                /\ dict_index(output'.companies, Undecorated) # 0
       /\ (TrackerStep /\ ~HasSkipPhrase /\ output'.current_company # {})
             => LET cur   == CHOOSE c \in output'.current_company : TRUE
                    at    == dict_index(output'.companies, cur)
                    was   == dict_index(output.companies, cur)
                    fresh == BeforeFunding /\ Undecorated # << >> /\ Len(Undecorated) < 100
                    kept  == IF fresh \/ was = 0 THEN << >> ELSE output.companies[was].website
                IN  output'.companies[at].website =
                        IF kept # << >> THEN kept
                        ELSE IF GoodUrls # << >> THEN GoodUrls[1] ELSE << >>
       /\ TrackerStep => NoJobsPageNoDenylisted
       /\ FundingExampleHolds]_vars

\* C12 witness: a decorated name, a funding line with a URL in parentheses
\* and a second URL: the name is recorded without the dash and the first URL
\* is the website
C12_Witness ==
    /\ pc = "parsed" /\ input.parser = "tracker"
    /\ input.lines = << <<"-"," ","A","c","m","e"," ","R","o","b","o","t","i","c","s">>,
                        <<"F","u","n","d","i","n","g"," ","A","m","o","u","n","t",":"," ","$","5","M"," ","(","h","t","t","p","s",":","/","/","a","c","m","e",".","e","x","a","m","p","l","e",".","o","r","g",")",".">>,
                        <<"h","t","t","p","s",":","/","/","a","c","m","e",".","e","x","a","m","p","l","e",".","c","o","m">> >>
    /\ output.companies =
          << [name |-> <<"A","c","m","e"," ","R","o","b","o","t","i","c","s">>, website |-> <<"h","t","t","p","s",":","/","/","a","c","m","e",".","e","x","a","m","p","l","e",".","o","r","g">>,
              jobs_page |-> << >>, date_added |-> now] >>

----------------------------------------------------------------------------
(* Properties of scrape_job_page (SpecScrape) *)

Fetched == pc = "returned" /\ ~input.exc /\ ~raise_for_status(input)

Loop == selector_loop(input.soup, 1, << >>, PageUrl, TestCompany, now)

\* the postings appended by the winning selector, before dedup and cap
Candidates == Loop.jobs

Matched(s) == select(input.soup, job_selectors[s])

Accepted(e) == ~should_exclude_role(e.text) /\ Len(e.text) > 3

Yields(s) == \E i \in DOMAIN Matched(s) : Accepted(Matched(s)[i])

\* the first selector of the catalog that matches an element, 0 if none
FirstMatching ==
    IF \E s \in DOMAIN job_selectors : Matched(s) # << >>
    THEN CHOOSE s \in DOMAIN job_selectors :
            Matched(s) # << >> /\ \A r \in 1..(s - 1) : Matched(r) = << >>
    ELSE 0

\* the first selector of the catalog with an accepted element, 0 if none
FirstYielding ==
    IF \E s \in DOMAIN job_selectors : Yields(s)
    THEN CHOOSE s \in DOMAIN job_selectors : Yields(s) /\ \A r \in 1..(s - 1) : ~Yields(r)
    ELSE 0

BuiltFrom(p, e) ==
    p.title = e.text /\ p.url = absolutize(PageUrl, element_url(e)) /\ p.company = TestCompany

ComesFrom(p, s) == \E i \in DOMAIN Matched(s) : BuiltFrom(p, Matched(s)[i])

\* C5 as stated: the first selector that matches at least one element wins,
\* no later selector is tried and every posting of the output comes from
\* the elements it matched, also when the Role Filter rejects all of them.
C5_FirstMatchingWins ==
    (Fetched /\ FirstMatching # 0) =>
        /\ Loop.tried = FirstMatching
        /\ \A k \in DOMAIN output : ComesFrom(output[k], FirstMatching)

\* C5 amended: the first selector that yields at least one accepted posting
\* (title passing the Role Filter and longer than 3 characters) wins: the
\* selectors before it are tried and contribute nothing, no later selector
\* is tried, and every posting of the output comes from its elements; when
\* no selector yields a posting every selector is tried and the output is
\* empty.
C5_FirstYieldingWins ==
    Fetched =>
        IF FirstYielding = 0
        THEN Loop.tried = Len(job_selectors) /\ output = << >>
        ELSE /\ Loop.tried = FirstYielding
             /\ output # << >>
             /\ \A k \in DOMAIN output : ComesFrom(output[k], FirstYielding)

\* C5 witness: the first matching selector has only rejected elements and a
\* later selector supplies the postings
C5_Witness ==
    /\ Fetched
    /\ FirstMatching # 0 /\ FirstMatching < FirstYielding
    /\ output # << >>

\* index in c of the first occurrence of title t
FirstIdx(c, t) ==
    CHOOSE k \in DOMAIN c : c[k].title = t /\ \A j \in 1..(k - 1) : c[j].title # t

\* the indexes of c that hold the first occurrence of their title
FirstOccs(c) == {k \in DOMAIN c : \A j \in 1..(k - 1) : c[j].title # c[k].title}

\* number of distinct titles of c up to index k, fo being FirstOccs(c)
Rank(fo, k) == Cardinality({j \in fo : j <= k})

Count(out, t) == Cardinality({k \in DOMAIN out : out[k].title = t})

NoTwoSameTitle(out) ==
    \A i, j \in DOMAIN out : i < j => out[i].title # out[j].title

InFirstOccurrenceOrder(c, out) ==
    /\ \A i \in DOMAIN out :
          /\ \E k \in DOMAIN c : c[k].title = out[i].title
          /\ out[i] = c[FirstIdx(c, out[i].title)]
    /\ \A i \in DOMAIN out : i < Len(out) =>
          FirstIdx(c, out[i].title) < FirstIdx(c, out[i + 1].title)

\* the selector at which the loop stopped with postings, 0 if none
Winning == LET l == Loop IN IF l.jobs # << >> THEN l.tried ELSE 0

\* C6 as stated: no two postings share a title, postings are in the order
\* of their first occurrence, and every title extracted from two or more
\* elements of the winning selector and not rejected by the Role Filter is
\* in exactly one posting.
C6_DedupExactlyOne ==
    Fetched =>
        LET c == Candidates
            w == Winning
            m == IF w = 0 THEN << >> ELSE Matched(w)
        IN  /\ NoTwoSameTitle(output)
            /\ InFirstOccurrenceOrder(c, output)
            /\ \A i, j \in DOMAIN m :
                  (i < j /\ m[i].text = m[j].text /\ ~should_exclude_role(m[i].text))
                      => Count(output, m[i].text) = 1

\* C6 amended: no two postings share a title, postings are in the document
\* order of their first occurrence and each is built from the first
\* occurrence of its title; a title of more than 3 characters extracted
\* from one or more accepted elements of the winning selector is in exactly
\* one posting when it is among the first 20 distinct titles and in none
\* otherwise (titles of at most 3 characters are in none).
C6_DedupFirstOccurrence ==
    Fetched =>
        LET c  == Candidates
            fo == FirstOccs(c)
        IN  /\ NoTwoSameTitle(output)
            /\ InFirstOccurrenceOrder(c, output)
            /\ \A k \in fo :
                  Count(output, c[k].title) = IF Rank(fo, k) <= JobLimit THEN 1 ELSE 0
            /\ \A i \in DOMAIN input.soup :
                  Len(input.soup[i].text) <= 3 => Count(output, input.soup[i].text) = 0

\* C6 witness: a title occurs twice with different URLs and the output has
\* the posting built from the first of them
C6_Witness ==
    /\ Fetched
    /\ LET c == Candidates
       IN  \E i, j \in DOMAIN c :
              /\ i < j
              /\ c[i].title = c[j].title
              /\ c[i].url # c[j].url
              /\ \E k \in DOMAIN output : output[k] = c[i]

\* index in c of the i-th distinct title, fo being FirstOccs(c)
Kth(fo, i) == CHOOSE k \in fo : Rank(fo, k) = i

\* C7 as stated: at most 20 postings, and more than 20 candidates after
\* role filtering give exactly 20 postings, the first 20 in document order.
C7_CapOnCandidates ==
    Fetched =>
        LET c == Candidates
        IN  /\ Len(output) <= JobLimit
            /\ Len(c) > JobLimit =>
                  /\ Len(output) = JobLimit
                  /\ \A i \in 1..JobLimit : output[i] = c[i]

\* C7 amended: at most 20 postings, and a page whose winning selector yields
\* more than 20 candidates with distinct titles (after role filtering and
\* dedup) gives exactly 20 postings; the output is always the first 20
\* distinct-title candidates in document order, neither sorted nor
\* re-ordered.
C7_CapOnDistinct ==
    Fetched =>
        LET c  == Candidates
            fo == FirstOccs(c)
            n  == Cardinality(fo)
        IN  /\ Len(output) <= JobLimit
            /\ n > JobLimit => Len(output) = JobLimit
            /\ n <= JobLimit => Len(output) = n
            /\ \A i \in DOMAIN output : output[i] = c[Kth(fo, i)]

\* C7 witness: 25 candidates with 25 distinct titles, in descending order,
\* are cut to 20
C7_Witness ==
    /\ Fetched
    /\ Len(output) = 20
    /\ output[1].title = NumTitle(25) /\ output[20].title = NumTitle(6)
    /\ LET c == Candidates IN Len(c) = 25 /\ Cardinality(FirstOccs(c)) = 25

KeywordSet == {exclude_keywords[k] : k \in DOMAIN exclude_keywords}

\* some substring of the title, lower-cased, is a keyword
HasKeyword(t) ==
    \E i \in 1..Len(t) : \E j \in i..Len(t) : lower(SubSeq(t, i, j)) \in KeywordSet

PageTitles == {input.soup[i].text : i \in DOMAIN input.soup}

\* C8: should_exclude_role(title) holds exactly when the lower-cased title
\* has a keyword of the exclusion set as a substring, whatever surrounds
\* it; no posting of the output of scrape_job_page has an excluded title;
\* "Software Engineer", "Senior DevOps Engineer", "Legal Counsel" and
\* "Paralegal" are excluded, "Sales Manager" and "Customer Success Lead"
\* are retained.
C8_RoleFilter ==
    /\ \A t \in PageTitles : should_exclude_role(t) <=> HasKeyword(t)
    /\ pc = "returned" => \A k \in DOMAIN output : ~HasKeyword(output[k].title)
    /\ should_exclude_role(<<"S","o","f","t","w","a","r","e"," ","E","n","g","i","n","e","e","r">>)
    /\ should_exclude_role(<<"S","e","n","i","o","r"," ","D","e","v","O","p","s"," ","E","n","g","i","n","e","e","r">>)
    /\ should_exclude_role(<<"L","e","g","a","l"," ","C","o","u","n","s","e","l">>)
    /\ should_exclude_role(<<"P","a","r","a","l","e","g","a","l">>)
    /\ should_exclude_role(<<"S","o","f","t","w","a","r","e","E","n","g","i","n","e","e","r","i","n","g">>)
    /\ should_exclude_role(<<"P","a","r","a","l","e","g","a","l","i","s","m">>)
    /\ ~should_exclude_role(<<"S","a","l","e","s"," ","M","a","n","a","g","e","r">>)
    /\ ~should_exclude_role(<<"C","u","s","t","o","m","e","r"," ","S","u","c","c","e","s","s"," ","L","e","a","d">>)

\* C8 witness: the winning selector matched an excluded title, which is
\* dropped, and a retained one, which is in the output
C8_Witness ==
    /\ Fetched
    /\ \E k \in DOMAIN output : output[k].title = <<"S","a","l","e","s"," ","M","a","n","a","g","e","r">>
    /\ LET w == Winning
       IN  w # 0 /\ \E i \in DOMAIN Matched(w) : should_exclude_role(Matched(w)[i].text)

\* the URL has a scheme and a host
Absolute(u) == startswith(u, <<"h","t","t","p",":","/","/">>) \/ startswith(u, <<"h","t","t","p","s",":","/","/">>)

\* C15: every posting returned by scrape_job_page has a url that is empty
\* or absolute: a relative href, whether it starts with "/" or not, is
\* resolved against the page URL before it is stored.
C15_UrlsEmptyOrAbsolute ==
    pc = "returned" =>
        \A k \in DOMAIN output : output[k].url = << >> \/ Absolute(output[k].url)

----------------------------------------------------------------------------
(* Properties of the tracker and the dashboard on the two files (SpecDash) *)

\* new_companies was added to the registry before, giving after and count:
\* the records of before are kept, the names not in before are inserted
\* with their parsed record, and count is the number of insertions
AddEffect(before, after, new_companies, count) ==
    /\ \A k \in DOMAIN before : k \in DOMAIN after /\ after[k] = before[k]
    /\ keys(after) = keys(before) \cup keys(new_companies)
    /\ \A k \in DOMAIN new_companies :
          new_companies[k].name \notin keys(before)
              => \E j \in DOMAIN after : after[j] = new_companies[k]
    /\ count = Cardinality(keys(new_companies) \ keys(before))
    /\ Len(after) = Len(before) + count

\* C13: adding parsed companies (add_companies_to_tracking, and the
\* dashboard's paste-and-parse path) skips every company whose name is
\* already tracked: its record is unchanged, only the names not yet tracked
\* are inserted, the count is the number of insertions, and the registry is
\* persisted only when the count is greater than zero.  The tracker's
\* registry is self.companies; the dashboard's is companies.json, which it
\* loads at every run.
C13_AddSkipsTracked ==
    [][/\ add_companies_to_tracking =>
             /\ AddEffect(companies, companies',
                          dated(TrackerParsed[input'.email], now), output'.added_count)
             /\ IF output'.added_count > 0 THEN companies_file' = companies'
                ELSE UNCHANGED <<companies_file, jobs_file>>
       /\ st_parse_and_add =>
             /\ AddEffect(companies_file, companies_file',
                          dated(DashParsed[input'.email], now), output'.added_count)
             /\ output'.added_count = 0 => UNCHANGED <<companies_file, jobs_file>>]_vars

\* C14: after the removal of the selected companies none of them is in the
\* registry and the snapshot store has no entry under the key of any of
\* them; both documents are persisted, and the records and the snapshots of
\* the companies that were not selected are unchanged.
C14_RemovalCascades ==
    [][st_remove_selected =>
          LET selected == input'.companies_to_remove
          IN  /\ \A c \in selected :
                    /\ c \notin keys(companies_file')
                    /\ company_key(c) \notin DOMAIN jobs_file'
              /\ \A k \in DOMAIN companies_file :
                    companies_file[k].name \notin selected =>
                        LET key == company_key(companies_file[k].name)
                        IN  /\ \E j \in DOMAIN companies_file' :
                                   companies_file'[j] = companies_file[k]
                            /\ (key \in DOMAIN jobs_file) = (key \in DOMAIN jobs_file')
                            /\ Get(jobs_file', key) = Get(jobs_file, key)]_vars

\* a step of the dashboard that edits the registry
DashboardEdit == st_parse_and_add \/ st_add_company \/ st_remove_selected

\* C16: the tracker holds no lock and does not read the files again after
\* load_data: an edit of the dashboard leaves the tracker's registry and
\* snapshot store as they are, and save_data writes them over both files
\* whatever the files hold, so an edit that lands between load_data and
\* save_data is overwritten.
C16_SaveOverwritesEdits ==
    [][/\ DashboardEdit => UNCHANGED <<companies, previous_jobs>>
       /\ save_data => companies_file' = companies /\ jobs_file' = previous_jobs]_vars

\* C16 witness: the run is over, the last edit was the removal of a company
\* by the dashboard, and that company is in the registry file again, with a
\* snapshot under its key
C16_Witness ==
    /\ pc = "done"
    /\ input # << >> /\ input.op = "remove"
    /\ \E c \in input.companies_to_remove :
          c \in keys(companies_file) /\ company_key(c) \in DOMAIN jobs_file

\* C17: the snapshots of two tracked companies with different names are
\* independent, also when the names differ only in case or in space versus
\* underscore: scraping one in check_for_new_jobs does not change the
\* snapshot the other is diffed against, and removing one through the
\* dashboard does not delete the snapshot of the other.
C17_SnapshotsIndependent ==
    [][/\ check_company =>
             \A j \in DOMAIN companies :
                 j # idx => Get(previous_jobs', company_key(companies[j].name))
                               = Get(previous_jobs, company_key(companies[j].name))
       /\ st_remove_selected =>
             \A c \in keys(load_companies) \ input'.companies_to_remove :
                 company_key(c) \in DOMAIN load_previous_jobs
                     => /\ company_key(c) \in DOMAIN jobs_file'
                        /\ jobs_file'[company_key(c)] = load_previous_jobs[company_key(c)]]_vars

=============================================================================
